---- MODULE Spec2Model ----
(***************************************************************************)
(* Fiducial selection (pygsti/algorithms/fiducialselection.py).            *)
(*                                                                         *)
(* Conventions of the model                                                *)
(*  - Python's 0-based index i is position i+1 of a TLA+ sequence, so the  *)
(*    source's wts[0] is w[1] here.                                        *)
(*  - An optional argument is a sequence: <<>> is None, <<v>> the value v. *)
(*  - Floats are integers.  An eigenvalue e is an integer and 1/e is       *)
(*    Scale \div e, so a score is in units of 1/Scale.  The large floats   *)
(*    of the source (1e-8, 1e6, 1e10, 1e100, inf) are stand-ins that keep  *)
(*    their order relative to each other and to every finite score.        *)
(*  - A gate set is given by the response matrices make_prep_mxs or        *)
(*    make_meas_mxs builds from it, one per channel, one column per        *)
(*    fiducial.  Every column is a multiple of a basis vector, so every    *)
(*    Gram matrix is diagonal and its spectrum is its sorted diagonal.     *)
(*    A gate set may instead give the spectra directly, gateset.eig[w],    *)
(*    which the sweep uses for scores closer than the tie tolerance.       *)
(***************************************************************************)
EXTENDS Integers, Sequences, FiniteSets, TLC

VARIABLES
    args,            \* the call's arguments (a record), fixed during a call
    gateset,         \* [dim, fidArrayList, eig]: the response matrices
    pc,              \* position in optimize_integer_fiducials_slack
    initial_test,    \* (testResult, spectrum, score) of the full list
    scoreD,          \* the score cache: weight tuple -> score
    weights, score, L1, lessWeightOnly,
    iIter, bFoundBetterNeighbor,
    boolVec, nbr,    \* get_neighbors: the vector it copies, the next index
    bv,              \* build_bitvec_mx: n, k, bitVecMx, counter, call stack
    bitVecMat, row, best_score, best_weights,   \* the fixedNum sweep
    printed,         \* what print() wrote, in order
    result,          \* the value returned (None until then)
    exception,       \* the exception raised, "" if none
    hist,            \* history: what the claims observe about the run
    gen              \* generate_fiducials: its default algorithm_kwargs
                     \* object, the call in progress and what it returned

vars == <<args, gateset, pc, initial_test, scoreD, weights, score, L1,
          lessWeightOnly, iIter, bFoundBetterNeighbor, boolVec, nbr,
          bv, bitVecMat, row, best_score, best_weights, printed, result,
          exception, hist, gen>>

----------------------------------------------------------------------------
(* Bounds of the model *)

NFids == 3
MaxIter == 4
MaxLen == 2
MaxBits == 4
RecursionLimit == 6

(* Stand-ins for the source's float constants *)

TieTol == 300
ThresholdDefault == 50000000
RejectScore == 100000000
ForceEmptyDefault == 400000000
Inf == 2000000000

NaN == Inf + 1

None == <<>>
Some(v) == <<v>>

----------------------------------------------------------------------------
(* Float arithmetic: IEEE inf and nan, as numpy computes them *)

IsNaN(x) == x = NaN
IsInf(x) == x = Inf

\* x <= y and x < y: every comparison with nan is False
Leq(x, y) == ~IsNaN(x) /\ ~IsNaN(y) /\ x <= y
Lt(x, y) == ~IsNaN(x) /\ ~IsNaN(y) /\ x < y

Add(x, y) ==
    IF IsNaN(x) \/ IsNaN(y) THEN NaN
    ELSE IF IsInf(x) \/ IsInf(y) THEN Inf
    ELSE x + y

\* k * x for a count k >= 0: 0 * inf is nan
Mul(k, x) ==
    IF IsNaN(x) THEN NaN
    ELSE IF IsInf(x) THEN (IF k = 0 THEN NaN ELSE Inf)
    ELSE k * x

Abs(x) == IF x < 0 THEN -x ELSE x

RECURSIVE Gcd(_, _)
Gcd(a, b) == IF b = 0 THEN a ELSE Gcd(b, a % b)

RECURSIVE LcmUpTo(_)
LcmUpTo(n) == IF n <= 1 THEN 1 ELSE (LcmUpTo(n - 1) * n) \div Gcd(LcmUpTo(n - 1), n)

\* the entries of a response column, and the largest eigenvalue a Gram
\* matrix of the model can have
Amps == {0, 1, 2}
MaxEig == NFids * 4

\* one score unit is 1/Scale: every 1/e, e an eigenvalue, is an integer
Scale == LcmUpTo(MaxEig)

\* 1./e as numpy divides: 1/0 is inf
Recip(e) == IF e = 0 THEN Inf ELSE Scale \div e

RECURSIVE SumSeq(_)
SumSeq(s) == IF s = <<>> THEN 0 ELSE Add(Head(s), SumSeq(Tail(s)))

RECURSIVE MinSeq(_)
MinSeq(s) == IF Len(s) = 1 THEN s[1]
             ELSE LET m == MinSeq(Tail(s)) IN IF s[1] < m THEN s[1] ELSE m

----------------------------------------------------------------------------
(* Weight vectors *)

BitVecs(n) == [1..n -> {0, 1}]

Ones(n) == [i \in 1..n |-> 1]

\* sum(wts), the number of selected fiducials
Popcount(w) == Cardinality({i \in DOMAIN w : w[i] = 1})

\* get_neighbors: the i-th vector it yields (i = 0 .. nFids-1), boolVec
\* with bit i toggled
FlipBit(v, i) == [v EXCEPT ![i + 1] = (v[i + 1] + 1) % 2]
get_neighbors(v, i) == FlipBit(v, i)

Coerce_ones(iw) == [i \in DOMAIN iw |-> 1]

\* [1 if x else 0 for x in initialWeights]
Coerce(iw) == [i \in DOMAIN iw |-> IF iw[i] # 0 THEN 1 ELSE 0]

\* sum(len(i) for i in <the fiducials w selects>)
RECURSIVE LenSum(_, _, _)
LenSum(fidList, w, i) ==
    IF i > Len(w) THEN 0
    ELSE (IF w[i] = 1 THEN fidList[i] ELSE 0) + LenSum(fidList, w, i + 1)
TotalLen(fidList, w) == LenSum(fidList, w, 1)

\* the sublist of fidList (as indices 0..) where w is 1
Selected(w) == {i - 1 : i \in {j \in DOMAIN w : w[j] = 1}}

----------------------------------------------------------------------------
(* Scoring *)

\* bool(x) of an optional number: None and 0 are False
Truthy(x) == x # None /\ x[1] # 0

\* xor(*args): exactly one argument is true
xor(a) == Cardinality({i \in DOMAIN a : Truthy(a[i])}) = 1

\* scoring.list_score: 'all' sums the reciprocals of the eigenvalues,
\* 'worst' is the reciprocal of the smallest one
list_score(spectrum, scoreFunc) ==
    IF scoreFunc = "all"
    THEN SumSeq([i \in DOMAIN spectrum |-> Recip(spectrum[i])])
    ELSE Recip(MinSeq(spectrum))

\* numpy.abs of a spectrum
AbsSeq(spectrum) == [i \in DOMAIN spectrum |-> Abs(spectrum[i])]

where_zero(wts) == SelectSeq([j \in DOMAIN wts |-> j], LAMBDA j : wts[j] = 0)

\* numpy.where(wts)[0]: the positions of the non-zero weights, ascending
where(wts) == SelectSeq([j \in DOMAIN wts |-> j], LAMBDA j : wts[j] # 0)

\* the columns of every matrix of fidArrayList that sel selects, side by
\* side: scoreMx
RECURSIVE ScoreMxFrom(_, _, _)
ScoreMxFrom(fidArrayList, sel, c) ==
    IF c > Len(fidArrayList) THEN << >>
    ELSE LET fidArray == fidArrayList[c]
             wtsLoc == where(sel)
         IN  [x \in DOMAIN wtsLoc |-> fidArray[wtsLoc[x]]]
             \o ScoreMxFrom(fidArrayList, sel, c + 1)
ScoreMx(gs, sel) == ScoreMxFrom(gs.fidArrayList, sel, 1)

\* numpy.dot(scoreMx, scoreMx.T)
ScoreSqMx(gs, sel) ==
    LET mx == ScoreMx(gs, sel)
    IN  [r \in 1..gs.dim |-> [c \in 1..gs.dim |->
            SumSeq([x \in DOMAIN mx |-> mx[x][r] * mx[x][c]])]]

IsDiagonal(m) == \A r \in DOMAIN m : \A c \in DOMAIN m : r # c => m[r][c] = 0

\* numpy.linalg.eigvalsh of a diagonal matrix: its diagonal, ascending
eigvalsh(m) == SortSeq([r \in DOMAIN m |-> m[r][r]], LAMBDA x, y : x < y)

\* the spectrum of the Gram matrix of the columns sel selects: computed
\* from the response matrices, or the one the gate set is given by
GramSpectrum(gs, sel) ==
    IF sel \in DOMAIN gs.eig THEN gs.eig[sel]
    ELSE eigvalsh(ScoreSqMx(gs, sel))

\* line 265: numFids * list_score(abs(spectrum))
TestScoreOf(spectrum, numFids, scoreFunc) ==
    Mul(numFids, list_score(AbsSeq(spectrum), scoreFunc))

TestVerdict_positive(s, threshold) == ~Leq(s, 0)

\* lines 267-270
TestVerdict(s, threshold) ==
    IF (Leq(s, 0) \/ IsInf(s)) \/ Lt(threshold, s) THEN FALSE ELSE TRUE

\* test_fiducial_list(..., returnAll=True) of the sublist sel selects:
\* (testResult, spectrum, score)
test_fiducial_list(gs, sel, scoreFunc, threshold) ==
    LET spectrum == GramSpectrum(gs, sel)
        s == TestScoreOf(spectrum, Popcount(sel), scoreFunc)
    IN  <<TestVerdict(s, threshold), spectrum, s>>

\* lines 503-507: numFids * list_score(spectrum), or 1e10
ScoreOf(spectrum, numFids, scoreFunc) ==
    LET raw == Mul(numFids, list_score(spectrum, scoreFunc))
    IN  IF Leq(raw, 0) \/ IsInf(raw) THEN RejectScore ELSE raw

ForcedEmpty_whole(a, wts) == a.forceEmpty /\ Popcount(wts) # 1

\* whether compute_score takes the forceEmpty branch
ForcedEmpty(a, wts) == a.forceEmpty /\ ~(Len(wts) >= 1 /\ wts[1] # 0)

compute_score_unforced(a, gs, wts) ==
    ScoreOf(GramSpectrum(gs, wts), Popcount(wts), a.scoreFunc)

\* compute_score: the score it returns
compute_score(a, gs, wts) ==
    IF ForcedEmpty(a, wts) THEN a.forceEmptyScore
    ELSE ScoreOf(GramSpectrum(gs, wts), Popcount(wts), a.scoreFunc)

Cache_drop(d, wts, s) == d

Cache_only(d, wts, s) == (wts :> s)

\* scoreD[tuple(wts)] = score
Cache(d, wts, s) == (wts :> s) @@ d

----------------------------------------------------------------------------
(* build_bitvec_mx(n, k), one step per call, loop turn and return of the  *)
(* nested build_mx.  A frame of bv.stack is one activation of build_mx    *)
(* (or, at the bottom, the loop of build_bitvec_mx itself): the bit       *)
(* locations it was given, the depth i it passes on, and the next value   *)
(* and the end of its range().                                            *)

RECURSIVE Binom(_, _)
Binom(n, k) ==
    IF k < 0 \/ k > n THEN 0
    ELSE IF k = 0 THEN 1
    ELSE Binom(n - 1, k - 1) + Binom(n - 1, k)

Zeros(r, n) == [j \in 1..r |-> [x \in 1..n |-> 0]]

Last(s) == s[Len(s)]

\* the state build_bitvec_mx(n, k) starts its loop in; then is where the
\* caller continues
BvStart(n, k, then) ==
    [n |-> n, k |-> k, then |-> then,
     bitVecMx |-> Zeros(Binom(n, k), n), counter |-> 0, err |-> "",
     stack |-> << [locs |-> <<>>, i |-> k - 1, next |-> 0, hi |-> (n - k) + 1] >>]

BvIdle == [n |-> 0, k |-> 0, then |-> "", bitVecMx |-> <<>>, counter |-> 0,
           err |-> "", stack |-> <<>>]

BvTop == Last(bv.stack)
BvPop == SubSeq(bv.stack, 1, Len(bv.stack) - 1)

BvFrame_short(locs, i) ==
    [locs |-> locs, i |-> i - 1, next |-> 1 + Last(locs),
     hi |-> (bv.n - bv.k) + (bv.k - i)]

\* the frame of build_mx(locs, i, counter), entered at its else branch
BvFrame(locs, i) ==
    [locs |-> locs, i |-> i - 1, next |-> 1 + Last(locs),
     hi |-> (bv.n - bv.k) + (bv.k - i) + 1]

\* bitVecMx[counter][[previous_bit_locs]] = 1
BvWrite(mx, counter, locs) ==
    [mx EXCEPT ![counter + 1] =
        [x \in 1..bv.n |-> IF \E j \in DOMAIN locs : locs[j] = x - 1 THEN 1 ELSE @[x]]]

BvOutOfRange(counter, locs) ==
    \/ counter >= Len(bv.bitVecMx)
    \/ \E j \in DOMAIN locs : locs[j] >= bv.n

\* a loop turn that calls build_mx(locs + (bit_loc,), i, counter) with i = 0:
\* the callee writes one row and returns counter + 1
BvLeaf ==
    /\ bv.stack # <<>> /\ bv.err = ""
    /\ BvTop.next < BvTop.hi /\ BvTop.i = 0
    /\ Len(bv.stack) + 1 <= RecursionLimit
    /\ LET locs == Append(BvTop.locs, BvTop.next)
           adv == [bv.stack EXCEPT ![Len(bv.stack)].next = @ + 1]
       IN  bv' = IF BvOutOfRange(bv.counter, locs)
                 THEN [bv EXCEPT !.err = "IndexError"]
                 ELSE [bv EXCEPT !.bitVecMx = BvWrite(@, bv.counter, locs),
                                 !.counter = @ + 1, !.stack = adv]

\* a loop turn that calls build_mx with i # 0: the callee starts its own loop
BvCall ==
    /\ bv.stack # <<>> /\ bv.err = ""
    /\ BvTop.next < BvTop.hi /\ BvTop.i # 0
    /\ Len(bv.stack) + 1 <= RecursionLimit
    /\ LET locs == Append(BvTop.locs, BvTop.next)
           adv == [bv.stack EXCEPT ![Len(bv.stack)].next = @ + 1]
       IN  bv' = [bv EXCEPT !.stack = Append(adv, BvFrame(locs, BvTop.i))]

\* the call would exceed the interpreter's recursion limit
BvOverflow ==
    /\ bv.stack # <<>> /\ bv.err = ""
    /\ BvTop.next < BvTop.hi
    /\ Len(bv.stack) + 1 > RecursionLimit
    /\ bv' = [bv EXCEPT !.err = "RecursionError"]

\* the loop of a frame is exhausted: return counter
BvReturn ==
    /\ bv.stack # <<>> /\ bv.err = ""
    /\ BvTop.next >= BvTop.hi
    /\ bv' = [bv EXCEPT !.stack = BvPop]

BvStep == BvLeaf \/ BvCall \/ BvOverflow \/ BvReturn

\* build_bitvec_mx has returned bitVecMx
BvReturned == bv.stack = <<>> /\ bv.err = ""
BvRaised == bv.err # ""

----------------------------------------------------------------------------
(* optimize_integer_fiducials_slack *)

nFids == Len(args.fidList)

Say(msg) == printed' = Append(printed, msg)

Raise(e) == /\ exception' = e
            /\ pc' = "raised"

\* what the search and the sweep leave alone
UNCH_bv == UNCHANGED <<bv, bitVecMat, row, best_score, best_weights>>
UNCH_search == UNCHANGED <<weights, score, L1, lessWeightOnly, iIter,
                           bFoundBetterNeighbor, boolVec, nbr>>
UNCH_call == UNCHANGED <<args, gateset, gen>>

\* lines 452-453: the slack arguments
CheckSlack ==
    /\ pc = "start"
    /\ IF ~xor(<<args.fixedSlack, args.slackFrac>>)
       THEN Raise("ValueError")
       ELSE pc' = "initial_test" /\ UNCHANGED exception
    /\ UNCHANGED <<initial_test, scoreD, printed, result, hist>>
    /\ UNCH_call /\ UNCH_search /\ UNCH_bv

\* lines 455-464: the completeness test of the full list
InitialTest ==
    /\ pc = "initial_test"
    /\ LET t == test_fiducial_list(gateset, Ones(nFids), args.scoreFunc,
                                   args.threshold)
       IN  /\ initial_test' = t
           /\ IF t[1]
              THEN /\ printed' = printed \o <<"Complete initial fiducial set succeeds.",
                                              "Now searching for best fiducial set.">>
                   /\ pc' = "setup"
                   /\ UNCHANGED result
              ELSE /\ printed' = printed \o <<"Complete initial fiducial set FAILS.",
                                              "Aborting search.">>
                   /\ pc' = "done"
                   /\ result' = None
    /\ UNCHANGED <<scoreD, exception, hist>>
    /\ UNCH_call /\ UNCH_search /\ UNCH_bv

\* lines 466-526: lessWeightOnly, scoreD, and the choice between the sweep
\* and the local search
Setup ==
    /\ pc = "setup"
    /\ lessWeightOnly' = FALSE
    /\ scoreD' = << >>
    /\ IF args.fixedNum # None
       THEN LET hammingWeight == IF args.forceEmpty THEN args.fixedNum[1] - 1
                                 ELSE args.fixedNum[1]
                numBits == IF args.forceEmpty THEN nFids - 1 ELSE nFids
            IN  /\ bv' = BvStart(numBits, hammingWeight, "sweep")
                /\ pc' = "build_bitvec_mx"
       ELSE /\ pc' = "search"
            /\ UNCHANGED bv
    /\ UNCHANGED <<initial_test, weights, score, L1, iIter, bFoundBetterNeighbor,
                   boolVec, nbr, bitVecMat, row, best_score, best_weights,
                   printed, result, exception, hist>>
    /\ UNCH_call

\* line 526: the steps of build_bitvec_mx
BuildBitvec ==
    /\ pc = "build_bitvec_mx"
    /\ BvStep
    /\ UNCHANGED <<pc, initial_test, scoreD, bitVecMat, row, best_score,
                   best_weights, printed, result, exception, hist>>
    /\ UNCH_call /\ UNCH_search

BuildBitvecRaises ==
    /\ pc = "build_bitvec_mx"
    /\ BvRaised
    /\ Raise(bv.err)
    /\ UNCHANGED <<initial_test, scoreD, printed, result, hist>>
    /\ UNCH_call /\ UNCH_search /\ UNCH_bv

\* lines 528-532: the forced first column, best_score and best_weights
SweepStart ==
    /\ pc = "build_bitvec_mx"
    /\ BvReturned
    /\ bv.then = "sweep"
    /\ bitVecMat' = IF args.forceEmpty
                    THEN [r \in DOMAIN bv.bitVecMx |-> <<1>> \o bv.bitVecMx[r]]
                    ELSE bv.bitVecMx
    /\ best_score' = Inf
    /\ best_weights' = << >>
    /\ row' = 1
    /\ pc' = "sweep"
    /\ UNCHANGED <<bv, initial_test, scoreD, printed, result, exception, hist>>
    /\ UNCH_call /\ UNCH_search

\* abs(temp_score - best_score) < 1e-8
WithinTol(a, b) ==
    /\ ~IsNaN(a) /\ ~IsNaN(b)
    /\ ~IsInf(a) /\ ~IsInf(b)
    /\ Abs(a - b) < TieTol

SweepKeep_count(fidList, best, wts, temp_score) ==
    IF WithinTol(temp_score, best.score)
    THEN IF Popcount(wts) < Popcount(best.weights)
         THEN [score |-> temp_score, weights |-> wts]
         ELSE best
    ELSE IF Lt(temp_score, best.score)
         THEN [score |-> temp_score, weights |-> wts]
         ELSE best

\* lines 537-557: what the sweep keeps as best after scoring wts
SweepKeep(fidList, best, wts, temp_score) ==
    IF WithinTol(temp_score, best.score)
    THEN IF TotalLen(fidList, wts) < TotalLen(fidList, best.weights)
         THEN [score |-> temp_score, weights |-> wts]
         ELSE best
    ELSE IF Lt(temp_score, best.score)
         THEN [score |-> temp_score, weights |-> wts]
         ELSE best

\* lines 533-557: one row of bitVecMat
SweepRow ==
    /\ pc = "sweep"
    /\ row <= Len(bitVecMat)
    /\ LET wts == bitVecMat[row]
           temp_score == compute_score(args, gateset, wts)
           keep == SweepKeep(args.fidList,
                             [score |-> best_score, weights |-> best_weights],
                             wts, temp_score)
       IN  /\ scoreD' = Cache(scoreD, wts, temp_score)
           /\ best_score' = keep.score
           /\ best_weights' = keep.weights
           /\ hist' = [hist EXCEPT !.scored = @ + 1]
    /\ row' = row + 1
    /\ UNCHANGED <<pc, bv, bitVecMat, initial_test, printed, result, exception>>
    /\ UNCH_call /\ UNCH_search

\* lines 559-568: the sweep's return
SweepReturn ==
    /\ pc = "sweep"
    /\ row > Len(bitVecMat)
    /\ weights' = best_weights
    /\ result' = Some([goodFidList |-> Selected(best_weights),
                       weights |-> best_weights,
                       scoreD |-> IF args.returnAll THEN Some(scoreD) ELSE None])
    /\ pc' = "done"
    /\ UNCHANGED <<bv, bitVecMat, row, best_score, best_weights, initial_test,
                   scoreD, printed, exception, hist, score, L1, lessWeightOnly,
                   iIter, bFoundBetterNeighbor, boolVec, nbr>>
    /\ UNCH_call

----------------------------------------------------------------------------
(* The local search, lines 573-670 *)

StartsLessWeightOnly_ones(a) ==
    \/ a.initialWeights = None
    \/ Coerce(a.initialWeights[1]) = Ones(Len(a.fidList))

\* lines 467 and 579-584: lessWeightOnly once the start vector is chosen
StartsLessWeightOnly(a) == a.initialWeights = None

\* lines 579-586: the starting vector and its score
SearchStart ==
    /\ pc = "search"
    /\ LET w0 == IF args.initialWeights # None
                 THEN Coerce(args.initialWeights[1])
                 ELSE Ones(nFids)
           s0 == compute_score(args, gateset, w0)
       IN  /\ weights' = w0
           /\ lessWeightOnly' = StartsLessWeightOnly(args)
           /\ score' = s0
           /\ scoreD' = Cache(scoreD, w0, s0)
           /\ L1' = Popcount(w0)
    /\ iIter' = 0
    /\ hist' = [hist EXCEPT !.scored = @ + 1]
    /\ pc' = "loop"
    /\ UNCHANGED <<initial_test, bFoundBetterNeighbor, boolVec, nbr, printed,
                   result, exception>>
    /\ UNCH_call /\ UNCH_bv

\* lines 590-597: the head of an iteration; get_neighbors(weights) is
\* created here and keeps the vector it was given
IterStart ==
    /\ pc = "loop"
    /\ iIter < args.maxIter
    /\ bFoundBetterNeighbor' = FALSE
    /\ boolVec' = weights
    /\ nbr' = 0
    /\ pc' = "scan"
    /\ hist' = [hist EXCEPT !.scanStart = Some(weights), !.scanMoves = 0]
    /\ UNCHANGED <<initial_test, scoreD, weights, score, L1, lessWeightOnly,
                   iIter, printed, result, exception>>
    /\ UNCH_call /\ UNCH_bv

\* lines 647-648: the for loop ran maxIter times
HitMaxIter ==
    /\ pc = "loop"
    /\ iIter >= args.maxIter
    /\ pc' = "final"
    /\ hist' = [hist EXCEPT !.ended = "maxIter"]
    /\ UNCHANGED <<initial_test, scoreD, printed, result, exception>>
    /\ UNCH_call /\ UNCH_search /\ UNCH_bv

Better_scoreOnly(neighborScore, neighborL1, s, l1, lwo) ==
    Leq(neighborScore, s)

Better_weightOnly(neighborScore, neighborL1, s, l1, lwo) ==
    neighborL1 < l1 \/ lwo = FALSE

\* line 607: neighborScore <= score and (neighborL1 < L1 or not lessWeightOnly)
Better(neighborScore, neighborL1, s, l1, lwo) ==
    Leq(neighborScore, s) /\ (neighborL1 < l1 \/ lwo = FALSE)

\* lines 597-612: one neighbour of the main scan
ScanNeighbor ==
    /\ pc = "scan"
    /\ nbr < nFids
    /\ LET neighbor == get_neighbors(boolVec, nbr)
           cached == neighbor \in DOMAIN scoreD
           neighborL1 == Popcount(neighbor)
           neighborScore == IF cached THEN scoreD[neighbor]
                            ELSE compute_score(args, gateset, neighbor)
       IN  /\ scoreD' = IF cached THEN scoreD
                        ELSE Cache(scoreD, neighbor, neighborScore)
           /\ IF Better(neighborScore, neighborL1, score, L1, lessWeightOnly)
              THEN /\ weights' = neighbor
                   /\ score' = neighborScore
                   /\ L1' = neighborL1
                   /\ bFoundBetterNeighbor' = TRUE
                   /\ hist' = [hist EXCEPT !.moves = @ + 1, !.scanMoves = @ + 1,
                                           !.scored = IF cached THEN @ ELSE @ + 1]
              ELSE /\ UNCHANGED <<weights, score, L1, bFoundBetterNeighbor>>
                   /\ hist' = [hist EXCEPT !.scored = IF cached THEN @ ELSE @ + 1]
    /\ nbr' = nbr + 1
    /\ UNCHANGED <<pc, initial_test, lessWeightOnly, iIter, boolVec, printed,
                   result, exception>>
    /\ UNCH_call /\ UNCH_bv

\* lines 619-623: slack, from the current score
Slack_fixedOnly(a, s) ==
    IF Truthy(a.fixedSlack) THEN a.fixedSlack[1]
    ELSE Mul(a.slackFrac[1], s)

Slack(a, s) ==
    IF Truthy(a.fixedSlack) THEN Add(s, a.fixedSlack[1])
    ELSE Mul(a.slackFrac[1], s)

\* lines 615-631: no neighbour was better; relax the score
Relax ==
    /\ pc = "scan"
    /\ nbr >= nFids
    /\ ~bFoundBetterNeighbor
    /\ lessWeightOnly' = TRUE
    /\ LET slack == Slack(args, score)
       IN  IF ~Lt(0, slack)
           THEN /\ Raise("AssertionError")
                /\ UNCHANGED <<score, boolVec, nbr, hist>>
           ELSE /\ score' = Add(score, slack)
                /\ boolVec' = weights
                /\ nbr' = 0
                /\ pc' = "rescan"
                /\ hist' = [hist EXCEPT !.relaxFrom = Some(score)]
                /\ UNCHANGED exception
    /\ UNCHANGED <<initial_test, scoreD, weights, L1, iIter,
                   bFoundBetterNeighbor, printed, result>>
    /\ UNCH_call /\ UNCH_bv

\* line 646: the scan moved; next iteration
NextIter ==
    /\ pc \in {"scan", "rescan"}
    /\ nbr >= nFids
    /\ bFoundBetterNeighbor
    /\ iIter' = iIter + 1
    /\ pc' = "loop"
    /\ UNCHANGED <<initial_test, scoreD, weights, score, L1, lessWeightOnly,
                   bFoundBetterNeighbor, boolVec, nbr, printed, result,
                   exception, hist>>
    /\ UNCH_call /\ UNCH_bv

\* lines 633-640: one neighbour of the relaxed re-scan
RescanNeighbor ==
    /\ pc = "rescan"
    /\ nbr < nFids
    /\ LET neighbor == get_neighbors(boolVec, nbr)
       IN  IF Popcount(neighbor) < L1
           THEN IF neighbor \notin DOMAIN scoreD
                THEN /\ Raise("KeyError")
                     /\ UNCHANGED <<weights, score, L1, bFoundBetterNeighbor,
                                    nbr, hist>>
                ELSE /\ IF Lt(scoreD[neighbor], score)
                        THEN /\ weights' = neighbor
                             /\ score' = scoreD[neighbor]
                             /\ L1' = Popcount(neighbor)
                             /\ bFoundBetterNeighbor' = TRUE
                             /\ hist' = [hist EXCEPT !.moves = @ + 1,
                                                     !.scanMoves = @ + 1]
                        ELSE UNCHANGED <<weights, score, L1,
                                         bFoundBetterNeighbor, hist>>
                     /\ nbr' = nbr + 1
                     /\ UNCHANGED <<pc, exception>>
           ELSE /\ nbr' = nbr + 1
                /\ UNCHANGED <<pc, exception, weights, score, L1,
                               bFoundBetterNeighbor, hist>>
    /\ UNCHANGED <<initial_test, scoreD, lessWeightOnly, iIter, boolVec,
                   printed, result>>
    /\ UNCH_call /\ UNCH_bv

\* lines 642-644: relaxing did not help
Stationary ==
    /\ pc = "rescan"
    /\ nbr >= nFids
    /\ ~bFoundBetterNeighbor
    /\ pc' = "final"
    /\ hist' = [hist EXCEPT !.ended = "stationary"]
    /\ UNCHANGED <<initial_test, scoreD, printed, result, exception>>
    /\ UNCH_call /\ UNCH_search /\ UNCH_bv

\* lines 654-670: the list returned and the final message
Final ==
    /\ pc = "final"
    /\ IF initial_test[1]
       THEN Say("Final fiducial set succeeds.")
       ELSE Say("WARNING: Final fiducial set FAILS.")
    /\ result' = Some([goodFidList |-> Selected(weights),
                       weights |-> weights,
                       scoreD |-> IF args.returnAll THEN Some(scoreD) ELSE None])
    /\ pc' = "done"
    /\ UNCHANGED <<initial_test, scoreD, exception, hist>>
    /\ UNCH_call /\ UNCH_search /\ UNCH_bv

----------------------------------------------------------------------------
(* The calls the model makes *)

\* a candidate list is the sequence of its gate strings' lengths; with
\* forceEmpty its first entry is the empty string
FidListOf(n) == [i \in 1..n |-> IF i = 1 THEN 0 ELSE 1]

DefaultArgs ==
    [fidList |-> FidListOf(NFids), initialWeights |-> None, scoreFunc |-> "all",
     maxIter |-> MaxIter, fixedSlack |-> None, slackFrac |-> None,
     returnAll |-> TRUE, forceEmpty |-> TRUE,
     forceEmptyScore |-> ForceEmptyDefault, fixedNum |-> None,
     threshold |-> ThresholdDefault]

\* a threshold that few lists meet
ThresholdLow == NFids * 2 * Recip(4)

\* every way to pass, or not pass, the two slack arguments
SlackOpts == {None, Some(0), Some(1)}

EntryArgs ==
    {[DefaultArgs EXCEPT !.fixedSlack = fs, !.slackFrac = sf] :
        fs \in SlackOpts, sf \in SlackOpts}

\* exactly one slack argument, the other left out
SlackArgs ==
    {[DefaultArgs EXCEPT !.fixedSlack = Some(Scale)]}
    \cup {[DefaultArgs EXCEPT !.slackFrac = Some(1)]}

\* the local search: from the default start or from any initialWeights
SearchArgs ==
    {[a EXCEPT !.initialWeights = iw, !.threshold = th] :
        a \in SlackArgs,
        iw \in {None} \cup {Some(w) : w \in BitVecs(NFids)},
        th \in {ThresholdLow, ThresholdDefault}}

\* the local search without forceEmpty, over a list one shorter
FreeSearchArgs ==
    {[a EXCEPT !.forceEmpty = FALSE, !.fidList = FidListOf(NFids - 1),
               !.initialWeights = iw] :
        a \in SlackArgs,
        iw \in {None} \cup {Some(w) : w \in BitVecs(NFids - 1)}}

\* the fixedNum sweep
SweepArgs ==
    {[DefaultArgs EXCEPT !.fixedSlack = Some(Scale), !.fixedNum = Some(k),
                         !.forceEmpty = TRUE, !.fidList = fl] :
        k \in 1..NFids, fl \in {f \in [1..NFids -> 0..MaxLen] : f[1] = 0}}
    \cup
    {[DefaultArgs EXCEPT !.fixedSlack = Some(Scale), !.fixedNum = Some(k),
                         !.forceEmpty = FALSE, !.fidList = fl] :
        k \in 1..NFids, fl \in [1..NFids -> 0..MaxLen]}

\* a response column: a multiple of a basis vector, so that every Gram
\* matrix is diagonal
Columns(dim) ==
    {[r \in 1..dim |-> IF r = ax THEN amp ELSE 0] : ax \in 1..dim, amp \in Amps}

\* the gate sets of dimension dim with numMxs channels (preparations or
\* effects), as the response matrices make_prep_mxs or make_meas_mxs builds
\* for a list of n fiducials
Gatesets(dim, numMxs, n) ==
    {[dim |-> dim, fidArrayList |-> fal, eig |-> << >>] :
        fal \in [1..numMxs -> [1..n -> Columns(dim)]]}

\* one gate set: every fiducial adds the same to both directions
PlainGateset(n) ==
    [dim |-> 1, fidArrayList |-> << [j \in 1..n |-> <<1>>] >>, eig |-> << >>]

\* the weight vectors a call can score
Requested(a) ==
    LET n == Len(a.fidList)
    IN  {w \in BitVecs(n) :
            /\ a.forceEmpty => w[1] = 1
            /\ a.fixedNum # None => Popcount(w) = a.fixedNum[1]}

\* three eigenvalues whose reciprocals are closer than the tie tolerance
CloseEigs == {MaxEig - 2, MaxEig - 1, MaxEig}

\* gate sets of dimension 1 given by their Gram spectra, which are close to
\* each other on the vectors the call scores
CloseGatesets(a) ==
    LET n == Len(a.fidList)
    IN  {[dim |-> 1, fidArrayList |-> << >>,
          eig |-> [w \in BitVecs(n) |->
                      IF Popcount(w) = 0 THEN <<0>>
                      ELSE IF w \in Requested(a) THEN f[w] ELSE <<MaxEig>>]] :
            f \in [Requested(a) -> {<<e>> : e \in CloseEigs}]}

\* what the model remembers of a call: the moves it accepted, how it ended,
\* and, in a second call, the vector the first one returned
IdleHist ==
    [moves |-> 0, scanMoves |-> 0, scored |-> 0, scanStart |-> None,
     relaxFrom |-> None, ended |-> "", first |-> None]

\* generate_fiducials before its first call: the dict of line 17 is empty
GenIdle ==
    [defaults |-> << >>, phase |-> "idle", calls |-> 0, call |-> None,
     algorithm_kwargs |-> << >>, prepFidList |-> None, measFidList |-> None,
     returned |-> None]

IdleSearch ==
    /\ initial_test = None
    /\ scoreD = << >>
    /\ weights = << >> /\ score = 0 /\ L1 = 0 /\ lessWeightOnly = FALSE
    /\ iIter = 0 /\ bFoundBetterNeighbor = FALSE
    /\ boolVec = << >> /\ nbr = 0
    /\ bitVecMat = << >> /\ row = 0 /\ best_score = 0 /\ best_weights = << >>
    /\ printed = << >>
    /\ result = None
    /\ exception = ""
    /\ hist = IdleHist
    /\ gen = GenIdle

Init ==
    /\ \/ /\ args \in EntryArgs
          /\ gateset = PlainGateset(nFids)
       \/ /\ args \in SearchArgs \cup FreeSearchArgs \cup SweepArgs
          /\ gateset \in Gatesets(2, 1, nFids)
       \/ /\ args \in SweepArgs
          /\ gateset \in CloseGatesets(args)
    /\ pc = "start"
    /\ bv = BvIdle
    /\ IdleSearch

Next ==
    \/ CheckSlack
    \/ InitialTest
    \/ Setup
    \/ BuildBitvec
    \/ BuildBitvecRaises
    \/ SweepStart
    \/ SweepRow
    \/ SweepReturn
    \/ SearchStart
    \/ IterStart
    \/ HitMaxIter
    \/ ScanNeighbor
    \/ Relax
    \/ NextIter
    \/ RescanNeighbor
    \/ Stationary
    \/ Final

Spec == Init /\ [][Next]_vars

----------------------------------------------------------------------------
(* The local search from the default all-ones start, over a list of       *)
(* NFids + 1 candidates with forceEmpty                                    *)

OnesArgs ==
    {[a EXCEPT !.fidList = FidListOf(NFids + 1), !.maxIter = mi] :
        a \in SlackArgs, mi \in {1, 2, MaxIter}}

InitOnes ==
    /\ args \in OnesArgs
    /\ gateset \in Gatesets(2, 1, nFids)
    /\ pc = "start"
    /\ bv = BvIdle
    /\ IdleSearch

NextSearch ==
    \/ CheckSlack
    \/ InitialTest
    \/ Setup
    \/ SearchStart
    \/ IterStart
    \/ HitMaxIter
    \/ ScanNeighbor
    \/ Relax
    \/ NextIter
    \/ RescanNeighbor
    \/ Stationary
    \/ Final

SpecOnes == InitOnes /\ [][NextSearch]_vars

----------------------------------------------------------------------------
(* The local search called a second time, with the weights the first call *)
(* returned as its initialWeights                                          *)

RerunArgs ==
    {[a EXCEPT !.initialWeights = iw, !.forceEmpty = fe] :
        a \in SlackArgs,
        iw \in {None} \cup {Some(w) : w \in BitVecs(NFids)},
        fe \in BOOLEAN}

InitRerun ==
    /\ args \in RerunArgs
    /\ gateset \in Gatesets(2, 1, nFids)
    /\ pc = "start"
    /\ bv = BvIdle
    /\ IdleSearch

\* optimize_integer_fiducials_slack(..., initialWeights=weights) after a
\* call that ended at a stationary point
Rerun ==
    /\ pc = "done"
    /\ result # None
    /\ hist.ended = "stationary"
    /\ hist.first = None
    /\ args' = [args EXCEPT !.initialWeights = Some(result[1].weights)]
    /\ hist' = [IdleHist EXCEPT !.first = Some(result[1].weights)]
    /\ pc' = "start"
    /\ initial_test' = None
    /\ scoreD' = << >>
    /\ weights' = << >> /\ score' = 0 /\ L1' = 0 /\ lessWeightOnly' = FALSE
    /\ iIter' = 0 /\ bFoundBetterNeighbor' = FALSE
    /\ boolVec' = << >> /\ nbr' = 0
    /\ printed' = << >>
    /\ result' = None
    /\ exception' = ""
    /\ UNCHANGED <<gateset, gen>>
    /\ UNCH_bv

NextRerun == NextSearch \/ Rerun

SpecRerun == InitRerun /\ [][NextRerun]_vars

----------------------------------------------------------------------------
(* Whole calls, in both modes: the local search from every start, and the *)
(* fixedNum sweep over one candidate list                                  *)

RunArgs ==
    {[a EXCEPT !.initialWeights = iw, !.forceEmpty = fe] :
        a \in SlackArgs,
        iw \in {None} \cup {Some(w) : w \in BitVecs(NFids)},
        fe \in BOOLEAN}
    \cup
    {[a EXCEPT !.forceEmpty = fe, !.returnAll = FALSE] :
        a \in SlackArgs, fe \in BOOLEAN}
    \cup
    {[DefaultArgs EXCEPT !.fixedSlack = Some(Scale), !.fixedNum = Some(k),
                         !.forceEmpty = fe, !.returnAll = ra] :
        k \in 1..NFids, fe \in BOOLEAN, ra \in BOOLEAN}

InitRuns ==
    /\ args \in RunArgs
    /\ gateset \in Gatesets(2, 1, nFids) \cup Gatesets(1, 1, nFids)
    /\ pc = "start"
    /\ bv = BvIdle
    /\ IdleSearch

SpecRuns == InitRuns /\ [][Next]_vars

----------------------------------------------------------------------------
(* build_bitvec_mx on its own: every n and k up to MaxBits *)

InitBitvec ==
    /\ \E n \in 0..MaxBits, k \in 0..MaxBits : bv = BvStart(n, k, "caller")
    /\ pc = "build_bitvec_mx"
    /\ args = DefaultArgs
    /\ gateset = PlainGateset(NFids)
    /\ IdleSearch

UNCH_caller ==
    UNCHANGED <<args, gateset, gen, pc, initial_test, scoreD, weights, score, L1,
                lessWeightOnly, iIter, bFoundBetterNeighbor, boolVec, nbr,
                bitVecMat, row, best_score, best_weights, printed, result,
                exception, hist>>

BitvecLeaf == BvLeaf /\ UNCH_caller
BitvecCall == BvCall /\ UNCH_caller
BitvecOverflow == BvOverflow /\ UNCH_caller
BitvecReturn == BvReturn /\ UNCH_caller

NextBitvec == BitvecLeaf \/ BitvecCall \/ BitvecOverflow \/ BitvecReturn

SpecBitvec == InitBitvec /\ [][NextBitvec]_vars

----------------------------------------------------------------------------
(* The two scorers on their own: compute_score on a vector and on the     *)
(* vector with one fiducial excluded, test_fiducial_list on the full list *)

ScoreArgs ==
    {[DefaultArgs EXCEPT !.forceEmpty = fe, !.scoreFunc = sf,
                         !.fixedSlack = Some(Scale)] :
        fe \in BOOLEAN, sf \in {"all", "worst"}}

InitScore ==
    /\ args \in ScoreArgs
    /\ gateset \in Gatesets(2, 1, NFids) \cup Gatesets(1, 2, NFids)
    /\ pc = "score"
    /\ bv = BvIdle
    /\ initial_test = None
    /\ scoreD = << >>
    /\ weights \in BitVecs(NFids)
    /\ score = 0 /\ L1 = 0 /\ lessWeightOnly = FALSE
    /\ iIter = 0 /\ bFoundBetterNeighbor = FALSE
    /\ boolVec = << >> /\ nbr = 0
    /\ bitVecMat = << >> /\ row = 0 /\ best_score = 0 /\ best_weights = << >>
    /\ printed = << >>
    /\ result = None
    /\ exception = ""
    /\ hist = IdleHist
    /\ gen = GenIdle

\* score = compute_score(weights)
ScoreWeights ==
    /\ pc = "score"
    /\ score' = compute_score(args, gateset, weights)
    /\ scoreD' = Cache(scoreD, weights, score')
    /\ L1' = Popcount(weights)
    /\ pc' = "exclude"
    /\ UNCHANGED <<args, gateset, gen, bv, initial_test, weights, lessWeightOnly,
                   iIter, bFoundBetterNeighbor, boolVec, nbr, bitVecMat, row,
                   best_score, best_weights, printed, result, exception, hist>>

\* compute_score(neighbor) for a neighbour that excludes one fiducial
ScoreExcluding ==
    /\ pc = "exclude"
    /\ \E i \in 0..(nFids - 1) :
          /\ weights[i + 1] = 1
          /\ nbr' = i
          /\ boolVec' = get_neighbors(weights, i)
          /\ scoreD' = Cache(scoreD, boolVec', compute_score(args, gateset, boolVec'))
    /\ pc' = "test"
    /\ UNCHANGED <<args, gateset, gen, bv, initial_test, weights, score, L1,
                   lessWeightOnly, iIter, bFoundBetterNeighbor, bitVecMat, row,
                   best_score, best_weights, printed, result, exception, hist>>

\* the all-zero vector excludes nothing
NothingToExclude ==
    /\ pc = "exclude"
    /\ Popcount(weights) = 0
    /\ pc' = "test"
    /\ UNCHANGED <<args, gateset, gen, bv, initial_test, scoreD, weights, score, L1,
                   lessWeightOnly, iIter, bFoundBetterNeighbor, boolVec, nbr,
                   bitVecMat, row, best_score, best_weights, printed, result,
                   exception, hist>>

\* test_fiducial_list(gateset, fidList, ..., returnAll=True)
TestFullList ==
    /\ pc = "test"
    /\ initial_test' = test_fiducial_list(gateset, Ones(nFids), args.scoreFunc,
                                          args.threshold)
    /\ pc' = "scored"
    /\ UNCHANGED <<args, gateset, gen, bv, scoreD, weights, score, L1,
                   lessWeightOnly, iIter, bFoundBetterNeighbor, boolVec, nbr,
                   bitVecMat, row, best_score, best_weights, printed, result,
                   exception, hist>>

NextScore == ScoreWeights \/ ScoreExcluding \/ NothingToExclude \/ TestFullList

SpecScore == InitScore /\ [][NextScore]_vars

----------------------------------------------------------------------------
(* test_fiducial_list on its own, over candidate lists of every length    *)

TestArgs ==
    {[DefaultArgs EXCEPT !.fidList = FidListOf(n), !.scoreFunc = sf,
                         !.threshold = th, !.fixedSlack = Some(Scale)] :
        n \in 0..NFids, sf \in {"all", "worst"},
        th \in {ThresholdLow, ThresholdDefault}}

InitTest ==
    /\ args \in TestArgs
    /\ gateset \in Gatesets(2, 1, nFids) \cup Gatesets(1, 1, nFids)
    /\ pc = "test"
    /\ bv = BvIdle
    /\ IdleSearch

NextTest == TestFullList

SpecTest == InitTest /\ [][NextTest]_vars

----------------------------------------------------------------------------
(* The fixedNum sweep on its own, over candidate lists whose sequences     *)
(* have one of two lengths                                                 *)

TieArgs ==
    {[DefaultArgs EXCEPT !.fixedSlack = Some(Scale), !.fixedNum = Some(k),
                         !.forceEmpty = FALSE, !.fidList = fl] :
        k \in 1..NFids, fl \in [1..NFids -> {1, MaxLen}]}
    \cup
    {[DefaultArgs EXCEPT !.fixedSlack = Some(Scale), !.fixedNum = Some(k),
                         !.forceEmpty = TRUE, !.fidList = fl] :
        k \in 1..NFids, fl \in {f \in [1..NFids -> {0, 1, MaxLen}] :
                                  f[1] = 0 /\ \A i \in 2..NFids : f[i] # 0}}

InitSweep ==
    /\ args \in TieArgs
    /\ gateset \in Gatesets(2, 1, nFids)
    /\ pc = "start"
    /\ bv = BvIdle
    /\ IdleSearch

NextSweep ==
    \/ CheckSlack
    \/ InitialTest
    \/ Setup
    \/ BuildBitvec
    \/ BuildBitvecRaises
    \/ SweepStart
    \/ SweepRow
    \/ SweepReturn

SpecSweep == InitSweep /\ [][NextSweep]_vars

----------------------------------------------------------------------------
(* The local search from the default start, over candidate lists of every *)
(* length                                                                  *)

DefaultStartArgs ==
    {[a EXCEPT !.fidList = FidListOf(n), !.forceEmpty = fe, !.maxIter = mi] :
        a \in SlackArgs, n \in 0..NFids, fe \in BOOLEAN,
        mi \in {1, NFids + 1}}

InitDefaultStart ==
    /\ args \in DefaultStartArgs
    /\ gateset \in Gatesets(2, 1, nFids) \cup Gatesets(1, 1, nFids)
    /\ pc = "start"
    /\ bv = BvIdle
    /\ IdleSearch

SpecDefaultStart == InitDefaultStart /\ [][NextSearch]_vars

----------------------------------------------------------------------------
(* generate_fiducials: candidate enumeration and the two optimizer calls.  *)
(* A target gate set is a record of its gate labels in order, a matrix per *)
(* gate, its preparations and its effects; a gate string is a sequence of  *)
(* gate labels; a dict is a function from its keys.                        *)

MaxCalls == 2

MatVec(m, v) == [r \in DOMAIN m |-> SumSeq([c \in DOMAIN v |-> m[r][c] * v[c]])]

VecMat(v, m) == [c \in DOMAIN m[1] |-> SumSeq([r \in DOMAIN v |-> v[r] * m[r][c]])]

MatMul(a, b) == [r \in DOMAIN a |-> VecMat(a[r], b)]

Identity(d) == [r \in 1..d |-> [c \in 1..d |-> IF r = c THEN 1 ELSE 0]]

\* gs.product(gatestring): the gates of the string, the first acting first
RECURSIVE product(_, _)
product(gs, str) ==
    IF str = << >> THEN Identity(gs.dim)
    ELSE MatMul(gs.mx[Last(str)], product(gs, SubSeq(str, 1, Len(str) - 1)))

\* lines 139-148: column j is product(fiducial j) applied to rho
make_prep_mxs(gs, prepFidList) ==
    [p \in DOMAIN gs.preps |->
        [j \in DOMAIN prepFidList |-> MatVec(product(gs, prepFidList[j]), gs.preps[p])]]

\* lines 175-184: column j is E transposed times product(fiducial j)
make_meas_mxs(gs, prepMeasList) ==
    [e \in DOMAIN gs.effects |->
        [j \in DOMAIN prepMeasList |-> VecMat(gs.effects[e], product(gs, prepMeasList[j]))]]

\* the strings of length l over the alphabet, the last label varying fastest
RECURSIVE StringsOfLen(_, _)
StringsOfLen(alphabet, l) ==
    IF l = 0 THEN << << >> >>
    ELSE LET shorter == StringsOfLen(alphabet, l - 1)
             n == Len(alphabet)
         IN  [i \in 1..(Len(shorter) * n) |->
                 Append(shorter[((i - 1) \div n) + 1], alphabet[((i - 1) % n) + 1])]

\* _constr.list_all_gatestrings(gateLabels, minlength, maxlength)
RECURSIVE list_all_gatestrings(_, _, _)
list_all_gatestrings(gateLabels, minlength, maxlength) ==
    IF minlength > maxlength THEN << >>
    ELSE StringsOfLen(gateLabels, minlength)
         \o list_all_gatestrings(gateLabels, minlength + 1, maxlength)

\* line 54: the gates of the target that are not omitted, in its order
fidGates(call) ==
    SelectSeq(call.gs_target.gates, LAMBDA g : g \notin call.gatesToOmit)

\* line 55
availableFidList(call) == list_all_gatestrings(fidGates(call), 0, call.maxFidLength)

\* lines 63-68: the defaults generate_fiducials writes into algorithm_kwargs
WithDefaults(kw, call) ==
    LET slack == IF "slackFrac" \notin DOMAIN kw /\ "fixedSlack" \notin DOMAIN kw
                 THEN ("slackFrac" :> 1) @@ kw
                 ELSE kw
        fids == IF "fidList" \notin DOMAIN slack
                THEN ("fidList" :> availableFidList(call)) @@ slack
                ELSE slack
    IN  IF "verbosity" \notin DOMAIN fids
        THEN ("verbosity" :> call.verbosity) @@ fids
        ELSE fids

\* lines 70-78: the optimizer's arguments, from the keywords of the copy
KwArgs(kw) ==
    [DefaultArgs EXCEPT
        !.fidList = [j \in DOMAIN kw["fidList"] |-> Len(kw["fidList"][j])],
        !.returnAll = FALSE,
        !.slackFrac = IF "slackFrac" \in DOMAIN kw THEN Some(kw["slackFrac"]) ELSE None,
        !.fixedSlack = IF "fixedSlack" \in DOMAIN kw THEN Some(kw["fixedSlack"]) ELSE None,
        !.maxIter = IF "maxIter" \in DOMAIN kw THEN kw["maxIter"] ELSE MaxIter]

\* the response matrices the optimizer builds at lines 478-481
Responses(gs, kw, prepOrMeas) ==
    [dim |-> gs.dim,
     fidArrayList |-> IF prepOrMeas = "prep" THEN make_prep_mxs(gs, kw["fidList"])
                      ELSE make_meas_mxs(gs, kw["fidList"]),
     eig |-> << >>]

\* a call of optimize_integer_fiducials_slack begins: its locals are fresh
StartOptimizer(a, gs) ==
    /\ args' = a
    /\ gateset' = gs
    /\ pc' = "start"
    /\ bv' = BvIdle
    /\ initial_test' = None
    /\ scoreD' = << >>
    /\ weights' = << >> /\ score' = 0 /\ L1' = 0 /\ lessWeightOnly' = FALSE
    /\ iIter' = 0 /\ bFoundBetterNeighbor' = FALSE
    /\ boolVec' = << >> /\ nbr' = 0
    /\ bitVecMat' = << >> /\ row' = 0 /\ best_score' = 0 /\ best_weights' = << >>
    /\ printed' = << >>
    /\ result' = None
    /\ exception' = ""
    /\ hist' = IdleHist

UNCH_optimizer ==
    UNCHANGED <<args, gateset, pc, initial_test, scoreD, weights, score, L1,
                lessWeightOnly, iIter, bFoundBetterNeighbor, boolVec, nbr, bv,
                bitVecMat, row, best_score, best_weights, printed, result, hist>>

\* the list the optimizer returned: the chosen strings, or None
Returned(kw) ==
    IF result = None THEN None
    ELSE Some([j \in DOMAIN where(result[1].weights) |->
                  kw["fidList"][where(result[1].weights)[j]]])

\* two target gate sets over the same labels: in the first Gx exchanges the
\* two directions, in the second it projects on the first
Swap == << <<0, 1>>, <<1, 0>> >>

Project == << <<1, 0>>, <<0, 0>> >>

TargetWith(gx) ==
    [gates |-> <<"Gi", "Gx">>, dim |-> 2,
     mx |-> [g \in {"Gi", "Gx"} |-> IF g = "Gi" THEN Identity(2) ELSE gx],
     preps |-> << <<1, 0>> >>, effects |-> << <<1, 0>> >>]

Targets == {TargetWith(Swap), TargetWith(Project)}

\* the keyword dicts a caller passes; None leaves algorithm_kwargs out
CallerKwargs ==
    {None, Some(<< >>), Some("fixedSlack" :> Scale), Some("maxIter" :> 1),
     Some("fidList" :> << << >>, <<"Gx">> >>),
     Some(("slackFrac" :> 1) @@ ("fixedSlack" :> Scale))}

Calls ==
    [gs_target : Targets, gatesToOmit : {{}, {"Gi"}}, maxFidLength : 1..MaxLen,
     algorithm : {"slack", "greedy"}, algorithm_kwargs : CallerKwargs,
     verbosity : {0, 1}]

GenDone == gen.phase \in {"idle", "returned", "raised"}

\* lines 16-73: a call with algorithm 'slack', up to the start of the
\* optimizer for the preparations; algorithm_kwargs is the caller's dict or,
\* left out, the one dict made when the function was defined
GenerateCall ==
    /\ GenDone
    /\ gen.calls < MaxCalls
    /\ \E call \in Calls :
          /\ call.algorithm = "slack"
          /\ LET given == call.algorithm_kwargs
                 kw == WithDefaults(IF given = None THEN gen.defaults ELSE given[1],
                                    call)
             IN  /\ gen' = [defaults |-> IF given = None THEN kw ELSE gen.defaults,
                            phase |-> "prep", calls |-> gen.calls + 1,
                            call |-> Some(call), algorithm_kwargs |-> kw,
                            prepFidList |-> None, measFidList |-> None,
                            returned |-> None]
                 /\ StartOptimizer(KwArgs(kw), Responses(call.gs_target, kw, "prep"))

\* lines 80-82: any other algorithm
GenerateBadAlgorithm ==
    /\ GenDone
    /\ gen.calls < MaxCalls
    /\ \E call \in Calls :
          /\ call.algorithm # "slack"
          /\ gen' = [gen EXCEPT !.phase = "raised", !.calls = @ + 1,
                                !.call = Some(call), !.algorithm_kwargs = << >>,
                                !.prepFidList = None, !.measFidList = None,
                                !.returned = None]
    /\ exception' = "ValueError"
    /\ UNCH_optimizer

\* lines 72-78: the preparations' optimizer returned; the one for the
\* measurements starts from another copy of algorithm_kwargs
GenerateMeas ==
    /\ gen.phase = "prep"
    /\ pc = "done"
    /\ gen' = [gen EXCEPT !.phase = "meas",
                          !.prepFidList = Returned(gen.algorithm_kwargs)]
    /\ StartOptimizer(KwArgs(gen.algorithm_kwargs),
                      Responses(gen.call[1].gs_target, gen.algorithm_kwargs, "meas"))

\* line 84
GenerateReturn ==
    /\ gen.phase = "meas"
    /\ pc = "done"
    /\ gen' = [gen EXCEPT !.phase = "returned",
                          !.measFidList = Returned(gen.algorithm_kwargs),
                          !.returned = Some(<<gen.prepFidList,
                                              Returned(gen.algorithm_kwargs)>>)]
    /\ UNCHANGED exception
    /\ UNCH_optimizer

\* an exception of the optimizer leaves generate_fiducials
GenerateRaises ==
    /\ gen.phase \in {"prep", "meas"}
    /\ pc = "raised"
    /\ gen' = [gen EXCEPT !.phase = "raised"]
    /\ UNCHANGED exception
    /\ UNCH_optimizer

InitGenerate ==
    /\ args = DefaultArgs
    /\ gateset = PlainGateset(NFids)
    /\ pc = "idle"
    /\ bv = BvIdle
    /\ IdleSearch

NextGenerate ==
    \/ GenerateCall
    \/ GenerateBadAlgorithm
    \/ GenerateMeas
    \/ GenerateReturn
    \/ GenerateRaises
    \/ NextSearch

SpecGenerate == InitGenerate /\ [][NextGenerate]_vars

----------------------------------------------------------------------------
(* Claims *)

\* the relaxed phase has just been entered: score holds the threshold of
\* the re-scan, hist.relaxFrom the score s it was entered with
RelaxEntered == pc = "rescan" /\ nbr = 0

\* C1: on entering the relaxed phase with score s the re-scan's threshold
\* is s + fixedSlack when fixedSlack is configured and s*(1+slackFrac) when
\* slackFrac is
C1_ThresholdAsDocumented ==
    RelaxEntered =>
        LET s == hist.relaxFrom[1]
        IN  score = IF Truthy(args.fixedSlack)
                    THEN Add(s, args.fixedSlack[1])
                    ELSE Mul(1 + args.slackFrac[1], s)

\* the local search has returned a list
SearchReturned == pc = "done" /\ result # None /\ hist.ended # ""

\* the list returned fails test_fiducial_list under the call's threshold
FinalFails ==
    ~test_fiducial_list(gateset, weights, args.scoreFunc, args.threshold)[1]

Warned ==
    \E i \in DOMAIN printed : printed[i] = "WARNING: Final fiducial set FAILS."

\* C5: a local search that returns a subset failing the completeness test
\* prints the 'final fiducial set FAILS' warning, and returns the subset
C5_WarnsOnFailingResult ==
    (SearchReturned /\ FinalFails) =>
        (Warned /\ result[1].goodFidList = Selected(weights))

Supplied(x) == x # None

ExactlyOneSupplied ==
    Supplied(args.fixedSlack) # Supplied(args.slackFrac)

\* C6: the configuration error is raised, before any completeness test or
\* score, exactly when both or neither of fixedSlack and slackFrac is
\* supplied, whatever values they have
C6_RaisesIffNotExactlyOne ==
    pc # "start" =>
        /\ ~ExactlyOneSupplied => (exception = "ValueError" /\ initial_test = None
                                   /\ DOMAIN scoreD = {} /\ hist.scored = 0)
        /\ ExactlyOneSupplied => exception # "ValueError"

\* the sweep has returned a list it chose among the rows of bitVecMat
SweepReturned ==
    pc = "done" /\ args.fixedNum # None /\ result # None /\ Len(bitVecMat) > 0

\* C4: the vector the fixedNum sweep returns is a minimum over the
\* enumerated vectors up to the tie tolerance: none of them scores lower by
\* the tolerance or more
C4_SweepReturnsMinimum ==
    SweepReturned =>
        \A r \in DOMAIN bitVecMat :
            ~(scoreD[bitVecMat[r]] + TieTol <= scoreD[result[1].weights])

BvEnded == bv.stack = << >> \/ bv.err # ""

BvRowsGood ==
    /\ Len(bv.bitVecMx) = Binom(bv.n, bv.k)
    /\ \A r \in DOMAIN bv.bitVecMx :
          /\ Len(bv.bitVecMx[r]) = bv.n
          /\ Popcount(bv.bitVecMx[r]) = bv.k
    /\ \A r1, r2 \in DOMAIN bv.bitVecMx :
          r1 # r2 => bv.bitVecMx[r1] # bv.bitVecMx[r2]

\* C8: for 0 <= k <= n build_bitvec_mx(n, k) returns, and returns C(n,k)
\* pairwise distinct rows of length n with k ones each
C8_BitvecEnumerates ==
    (bv.k <= bv.n /\ BvEnded) => (bv.err = "" /\ BvRowsGood)

\* the vector and its neighbour without fiducial nbr have both been scored
\* under 'all'
ExcludedScored ==
    /\ pc \in {"test", "scored"} /\ boolVec # << >>
    /\ args.scoreFunc = "all"
    /\ Popcount(weights) >= 2

\* C9: under 'all', for popcount(w) >= 2 and w[i] = 1 the score of w with
\* bit i cleared is at least the score of w
C9_ExcludingNeverLowersScore ==
    ExcludedScored => Leq(scoreD[weights], scoreD[boolVec])

\* neither score is a sentinel: both Gram matrices are regular and
\* forceEmpty did not decide
BothRegular ==
    /\ ~ForcedEmpty(args, weights) /\ ~ForcedEmpty(args, boolVec)
    /\ scoreD[weights] # RejectScore /\ scoreD[boolVec] # RejectScore

\* C9, amended: the sum of the reciprocal eigenvalues, score / popcount,
\* does not decrease when a fiducial is excluded
C9_ExcludingNeverLowersAggregate ==
    (ExcludedScored /\ BothRegular) =>
        Popcount(weights) * scoreD[boolVec] >= Popcount(boolVec) * scoreD[weights]

C9_Witness ==
    /\ ExcludedScored /\ BothRegular
    /\ scoreD[boolVec] < scoreD[weights]

\* C10: with forceEmpty, compute_score of a vector with w[0] = 0 is
\* forceEmptyScore, whatever its other bits and the aggregation mode, and
\* never the 1e10 of a rejected spectrum
C10_ForcedEmptyScore ==
    \A w \in DOMAIN scoreD :
        (args.forceEmpty /\ w[1] = 0) =>
            (scoreD[w] = args.forceEmptyScore /\ scoreD[w] # RejectScore)

C10_Witness ==
    /\ pc = "scored" /\ args.forceEmpty /\ args.scoreFunc = "worst"
    /\ weights[1] = 0 /\ Popcount(weights) = 2
    /\ weights \in DOMAIN scoreD

\* w* of the all-ones scenario: every candidate but the last
AllButLast(n) == [i \in 1..n |-> IF i = n THEN 0 ELSE 1]

ScoreAt(w) == compute_score(args, gateset, w)

\* w* scores strictly lower than the all-ones vector and than every other
\* neighbour of w*
StrictLocalMin(w) ==
    \A i \in 0..(Len(w) - 1) : Lt(ScoreAt(w), ScoreAt(get_neighbors(w, i)))

OnesReturned ==
    /\ pc = "done" /\ result # None
    /\ args.initialWeights = None /\ args.forceEmpty
    /\ nFids = NFids + 1

\* C2: from the all-ones start with forceEmpty and maxIter large enough,
\* whenever w* = (1,..,1,0) scores strictly lower than all-ones and than
\* every other neighbour of w*, the search returns exactly w*
C2_ConvergesToLocalMin ==
    (OnesReturned /\ args.maxIter = MaxIter /\ StrictLocalMin(AllButLast(nFids))) =>
        result[1].weights = AllButLast(nFids)

\* the threshold the relaxed re-scan compares with, after a scan from a
\* vector scoring s accepted nothing
RelaxedThreshold(s) ==
    IF Truthy(args.fixedSlack) THEN Add(Mul(2, s), args.fixedSlack[1])
    ELSE Mul(1 + args.slackFrac[1], s)

\* no neighbour of all-ones that the scan meets before w* is accepted
NoEarlierDescent(w) ==
    \A i \in 0..(Len(w) - 2) :
        Lt(ScoreAt(Ones(Len(w))), ScoreAt(get_neighbors(Ones(Len(w)), i)))

\* no lighter neighbour of w scores below the relaxed threshold
NoRelaxedDescent(w) ==
    \A i \in 0..(Len(w) - 1) :
        Popcount(get_neighbors(w, i)) < Popcount(w) =>
            ~Lt(ScoreAt(get_neighbors(w, i)), RelaxedThreshold(ScoreAt(w)))

\* C2, amended: the search returns w* when, in addition, maxIter >= 2, every
\* other neighbour of all-ones scores strictly higher than all-ones, and no
\* neighbour of w* with fewer fiducials scores below the relaxed threshold
C2_ConvergesWhenNothingElseDescends ==
    (/\ OnesReturned /\ args.maxIter >= 2
     /\ StrictLocalMin(AllButLast(nFids))
     /\ NoEarlierDescent(AllButLast(nFids))
     /\ NoRelaxedDescent(AllButLast(nFids))) =>
        result[1].weights = AllButLast(nFids)

C2_Witness ==
    /\ OnesReturned /\ args.maxIter >= 2
    /\ StrictLocalMin(AllButLast(nFids))
    /\ NoEarlierDescent(AllButLast(nFids))
    /\ NoRelaxedDescent(AllButLast(nFids))
    /\ hist.moves = 1 /\ hist.ended = "stationary"
    /\ result[1].goodFidList = 0..(nFids - 2)

\* the second call has returned
RerunReturned == pc \in {"done", "raised"} /\ hist.first # None

\* C3: a second run from the weights w* a run returned at a stationary
\* point accepts no move and returns w*
C3_RerunIsIdle ==
    RerunReturned =>
        /\ result # None
        /\ hist.moves = 0
        /\ result[1].weights = hist.first[1]

\* no neighbour of w with more fiducials scores as low as w
NoHeavierDescent(w) ==
    \A i \in 0..(Len(w) - 1) :
        Popcount(get_neighbors(w, i)) > Popcount(w) =>
            ~Leq(ScoreAt(get_neighbors(w, i)), ScoreAt(w))

\* C3, amended: the second run accepts no move and returns w* provided no
\* neighbour of w* with more fiducials scores as low as w*
C3_RerunIsIdleWhenNothingHeavierDescends ==
    (RerunReturned /\ NoHeavierDescent(hist.first[1])) =>
        /\ result # None
        /\ hist.moves = 0
        /\ result[1].weights = hist.first[1]

C3_Witness ==
    /\ RerunReturned /\ NoHeavierDescent(hist.first[1])
    /\ Popcount(hist.first[1]) < nFids
    /\ Popcount(hist.first[1]) >= 2
    /\ hist.ended = "stationary"
    /\ result # None

\* the full candidate list fails the completeness test: its score is not
\* positive, not finite, or above the threshold
FullListFails ==
    LET s == TestScoreOf(GramSpectrum(gateset, Ones(nFids)), nFids, args.scoreFunc)
    IN  ~(Lt(0, s) /\ ~IsInf(s) /\ Leq(s, args.threshold))

\* the call is past its completeness test
PastInitialTest == pc \notin {"start", "initial_test"} /\ exception # "ValueError"

ForcedSweepReturned ==
    /\ pc = "done" /\ result # None
    /\ args.fixedNum # None /\ args.forceEmpty
    /\ args.fixedNum[1] >= 2 /\ args.fixedNum[1] <= nFids

\* C12: in fixedNum mode with forceEmpty and 2 <= fixedNum <= m the scorer
\* runs C(m-1, fixedNum-1) times, once for each weight vector with w[0] = 1
\* and popcount fixedNum; those vectors are the keys of the returned cache
\* and the returned vector is one of them
C12_SweepScoresEachOnce ==
    ForcedSweepReturned =>
        LET S == {w \in BitVecs(nFids) :
                     w[1] = 1 /\ Popcount(w) = args.fixedNum[1]}
        IN  /\ hist.scored = Binom(nFids - 1, args.fixedNum[1] - 1)
            /\ hist.scored = Cardinality(S)
            /\ DOMAIN scoreD = S
            /\ args.returnAll => result[1].scoreD = Some(scoreD)
            /\ result[1].weights \in S
            /\ result[1].goodFidList = Selected(result[1].weights)

C12_Witness ==
    /\ ForcedSweepReturned
    /\ args.fixedNum[1] = 2 /\ args.returnAll
    /\ hist.scored = nFids - 1
    /\ Cardinality(DOMAIN result[1].scoreD[1]) = nFids - 1

\* the local search has stopped at a stationary point
AtStationary == pc \in {"final", "done"} /\ hist.ended = "stationary"

\* the slack the configuration promises for a vector scoring s
ConfiguredSlack(s) ==
    IF Truthy(args.fixedSlack) THEN args.fixedSlack[1]
    ELSE Mul(args.slackFrac[1], s)

\* the vectors obtained from w by excluding one fiducial
Excluding(w) ==
    {get_neighbors(w, i) : i \in {j \in 0..(Len(w) - 1) : w[j + 1] = 1}}

\* C13: at a stationary point with final vector w and true score s, every
\* vector that excludes one fiducial of w scores more than s plus the
\* configured slack
C13_LocallyOptimalAtReturn ==
    AtStationary =>
        \A n \in Excluding(weights) :
            Lt(Add(scoreD[weights], ConfiguredSlack(scoreD[weights])),
               scoreD[n])

\* a call has returned a list
ListReturned == pc = "done" /\ result # None

\* C14: with forceEmpty (forceEmptyScore above every other score and every
\* relaxed threshold) and maxIter >= 1, a call that returns a list, from the
\* local search with any start or from the sweep, returns w[0] = 1: the
\* list contains fidList[0]
C14_ForcedEmptyIsReturned ==
    (ListReturned /\ args.forceEmpty /\ args.maxIter >= 1) =>
        /\ result[1].weights[1] = 1
        /\ 0 \in result[1].goodFidList

C14_Witness ==
    /\ ListReturned /\ args.forceEmpty /\ args.maxIter >= 1
    /\ args.fixedNum = None
    /\ args.initialWeights # None /\ args.initialWeights[1][1] = 0
    /\ result[1].weights[1] = 1
    /\ hist.moves >= 2

\* a call in local-search mode whose full list passed the completeness test
SearchRun ==
    /\ args.fixedNum = None
    /\ pc \notin {"start", "initial_test", "setup", "search"}
    /\ initial_test # None /\ initial_test[1]

\* C15: a local-search run makes at most maxIter iterations and ends at a
\* stationary point or by exhausting maxIter, never otherwise, and then
\* returns the sublist at the indices where the current weights are 1
C15_SearchEndsAndReturns ==
    SearchRun =>
        /\ iIter <= args.maxIter
        /\ pc # "raised" /\ exception = ""
        /\ pc = "done" =>
              /\ hist.ended \in {"stationary", "maxIter"}
              /\ result # None
              /\ result[1].weights = weights
              /\ result[1].goodFidList = Selected(weights)

\* C16: test_fiducial_list returns True exactly when the score of the full
\* list is finite, positive and at most the threshold
C16_TrueIffFinitePositiveWithinThreshold ==
    pc = "scored" =>
        LET s == initial_test[3]
        IN  initial_test[1] <=>
                (/\ ~IsNaN(s) /\ ~IsInf(s)
                 /\ Lt(0, s) /\ Leq(s, args.threshold))

InScan == pc \in {"scan", "rescan"}

\* C17: lessWeightOnly, once true, stays true; a move accepted while it is
\* true, in the main scan or the relaxed one, strictly decreases the
\* popcount of the weights; and a scan under it accepts at most one move
C17_ShrinkOnlyIsMonotone ==
    [][/\ lessWeightOnly => lessWeightOnly'
       /\ (lessWeightOnly /\ InScan /\ weights' # weights) =>
              /\ Popcount(weights') < Popcount(weights)
              /\ L1' = Popcount(weights') /\ L1' < L1
       /\ (lessWeightOnly' /\ pc' \in {"scan", "rescan"}) =>
              hist'.scanMoves <= 1]_vars

\* a start with lessWeightOnly off relaxed, and the relaxed scan moved
C17_Witness ==
    /\ args.initialWeights # None /\ lessWeightOnly
    /\ pc = "rescan" /\ hist.scanMoves = 1
    /\ Popcount(weights) < Popcount(boolVec)

\* the start vector has been chosen and scored, and no scan has begun
AtStart == pc = "loop" /\ iIter = 0 /\ args.fixedNum = None

\* C18: at initialisation lessWeightOnly is true exactly when the start
\* vector is all-ones, by default or passed as initialWeights
C18_ShrinkOnlyIffAllOnes ==
    AtStart => (lessWeightOnly <=> weights = Ones(nFids))

\* C18, amended: lessWeightOnly is true exactly when initialWeights is left
\* out; the start vector is all-ones then and the coerced initialWeights
\* otherwise, all-ones included
C18_ShrinkOnlyIffDefaultStart ==
    AtStart =>
        /\ lessWeightOnly <=> args.initialWeights = None
        /\ args.initialWeights = None => weights = Ones(nFids)
        /\ args.initialWeights # None =>
              \A i \in 1..nFids :
                  weights[i] = IF args.initialWeights[1][i] # 0 THEN 1 ELSE 0
        /\ score = scoreD[weights] /\ L1 = Popcount(weights)

C18_Witness ==
    /\ AtStart
    /\ args.initialWeights = Some(Ones(nFids))
    /\ weights = Ones(nFids) /\ ~lessWeightOnly

\* C19: when the relaxed phase is entered every neighbour of the current
\* weights is a key of scoreD; the relaxed scan never misses a lookup and
\* computes no score
C19_RelaxedScanFindsEveryNeighbour ==
    /\ [](/\ exception # "KeyError"
          /\ pc = "rescan" =>
                /\ boolVec = hist.scanStart[1]
                /\ \A i \in 0..(nFids - 1) :
                      get_neighbors(boolVec, i) \in DOMAIN scoreD)
    /\ [][pc = "rescan" =>
              /\ scoreD' = scoreD
              /\ hist'.scored = hist.scored]_vars

C19_Witness ==
    /\ pc = "rescan" /\ nbr = nFids
    /\ hist.scanMoves = 1
    /\ Cardinality(DOMAIN scoreD) > nFids + 1

\* the neighbours of boolVec with an index below n that qualify in the
\* relaxed scan: lighter than boolVec and scoring below the threshold
Qualifying(n) ==
    {i \in 0..(n - 1) :
        /\ Popcount(get_neighbors(boolVec, i)) < Popcount(boolVec)
        /\ Lt(scoreD[get_neighbors(boolVec, i)],
              RelaxedThreshold(hist.relaxFrom[1]))}

LowestOf(S) == CHOOSE i \in S : \A j \in S : i <= j

RowScore(r) == scoreD[bitVecMat[r]]

MinRows ==
    {r \in DOMAIN bitVecMat : \A q \in DOMAIN bitVecMat : Leq(RowScore(r), RowScore(q))}

ShortestMinRows ==
    {r \in MinRows :
        \A q \in MinRows : TotalLen(args.fidList, bitVecMat[r])
                              <= TotalLen(args.fidList, bitVecMat[q])}

\* several rows share the minimum exactly and every other row scores more
\* than the tie tolerance above it
ExactTie ==
    /\ Cardinality(MinRows) >= 2
    /\ \A r \in DOMAIN bitVecMat \ MinRows :
          \A q \in MinRows : RowScore(r) > RowScore(q) + TieTol

\* C21: with an exact tie at the minimum and every other row more than the
\* tolerance above it, the sweep returns the minimum-score row of smallest
\* total sequence length, the first enumerated among those
C21_TieGoesToShortestThenFirst ==
    (SweepReturned /\ ExactTie) =>
        /\ ShortestMinRows # {}
        /\ result[1].weights = bitVecMat[LowestOf(ShortestMinRows)]
        /\ result[1].goodFidList = Selected(bitVecMat[LowestOf(ShortestMinRows)])

C21_Witness ==
    /\ SweepReturned /\ ExactTie
    /\ DOMAIN bitVecMat \ MinRows # {}
    /\ LowestOf(ShortestMinRows) # LowestOf(MinRows)
    /\ result[1].weights = bitVecMat[LowestOf(ShortestMinRows)]

\* C22: the score cache only grows, a stored value never changes and is the
\* scorer's value for its key, and in the local search every weight pattern
\* is scored at most once
C22_CacheAppendOnlyAndCoherent ==
    /\ [](/\ \A w \in DOMAIN scoreD : scoreD[w] = compute_score(args, gateset, w)
          /\ args.fixedNum = None => hist.scored = Cardinality(DOMAIN scoreD))
    /\ [][/\ DOMAIN scoreD \subseteq DOMAIN scoreD'
          /\ \A w \in DOMAIN scoreD : scoreD'[w] = scoreD[w]]_vars

\* a second scan has run to its end: it met the vector the search moved
\* from, which the cache already held
C22_Witness ==
    /\ pc = "scan" /\ nbr = nFids
    /\ hist.moves >= 1
    /\ args.initialWeights # None
    /\ \E i \in 0..(nFids - 1) :
          get_neighbors(boolVec, i) = Coerce(args.initialWeights[1])
    /\ hist.scored = Cardinality(DOMAIN scoreD)
    /\ hist.scored > nFids + 1

\* a call is under way that was given no candidate list by its caller
OwnCandidatesCall ==
    /\ gen.phase \in {"prep", "meas", "returned"}
    /\ \/ gen.call[1].algorithm_kwargs = None
       \/ "fidList" \notin DOMAIN gen.call[1].algorithm_kwargs[1]

\* C23: a generate_fiducials call that was given no candidate list runs both
\* optimizers over the strings enumerated from its own gates to omit and
\* maxFidLength, with its own verbosity and its own slack default, whatever
\* calls were made before it
C23_CallUsesOwnCandidates ==
    OwnCandidatesCall =>
        /\ gen.algorithm_kwargs["fidList"] = availableFidList(gen.call[1])
        /\ nFids = Len(availableFidList(gen.call[1]))
        /\ gen.algorithm_kwargs["verbosity"] = gen.call[1].verbosity
        /\ gen.call[1].algorithm_kwargs \in {None, Some(<< >>)} =>
              /\ args.slackFrac = Some(1)
              /\ args.fixedSlack = None

\* the local search is past its start
Searching == pc \in {"loop", "scan", "rescan", "final", "done"} /\ args.fixedNum = None
                /\ initial_test # None /\ initial_test[1]

\* C24: from the default all-ones start popcount(w) never increases, every
\* iteration that does not end the run lowers it, and with maxIter >= m + 1
\* the run ends at a stationary point within m + 1 iterations
C24_DefaultStartShrinksToStationary ==
    /\ []((args.initialWeights = None /\ args.fixedNum = None
           /\ initial_test # None /\ initial_test[1]) =>
            /\ pc = "loop" => Popcount(weights) <= nFids - iIter
            /\ args.maxIter >= nFids + 1 =>
                  /\ pc # "raised"
                  /\ iIter <= nFids
                  /\ hist.ended \in {"", "stationary"})
    /\ [][(args.initialWeights = None /\ Searching) =>
              Popcount(weights') <= Popcount(weights)]_vars

\* a main scan that may move anywhere has run to its end and has moved
FreeScanMoved ==
    /\ pc = "scan" /\ nbr = nFids
    /\ ~lessWeightOnly
    /\ hist.scanMoves >= 1

\* the index of the neighbour of boolVec the search stands on
MovedTo == CHOOSE i \in 0..(nFids - 1) : get_neighbors(boolVec, i) = weights

\* C25: while lessWeightOnly is false a main scan that moved ends on a
\* neighbour of the vector it started from whose score is the minimum over
\* all m neighbours, the highest-index one among equal minima; the current
\* score never rises inside a main scan
C25_FreeScanEndsOnLastMinimum ==
    /\ [](FreeScanMoved =>
            /\ \E i \in 0..(nFids - 1) : get_neighbors(boolVec, i) = weights
            /\ score = ScoreAt(weights)
            /\ \A i \in 0..(nFids - 1) :
                  /\ Leq(score, ScoreAt(get_neighbors(boolVec, i)))
                  /\ ScoreAt(get_neighbors(boolVec, i)) = score => i <= MovedTo)
    /\ [][(pc = "scan" /\ pc' = "scan") => (score' = score \/ Lt(score', score))]_vars

====
